---- MODULE Spec2Model ----
(***************************************************************************)
(* flask_dantic_schema/extension.py: the OpenAPI document builder          *)
(* (_build_openapi_schema), the route-hiding marker (hide_route) and the   *)
(* response coercion wrapper (convert_model_result).                       *)
(*                                                                         *)
(* Text that the code transforms (URL rules, documentation strings, the    *)
(* names of properties and of component schemas) is a sequence of          *)
(* one-character strings, so that re.sub, str.splitlines and camelize are  *)
(* computed character by character.  Python dicts whose order matters are  *)
(* sequences of <<key, value>> items with unique keys; dicts whose order   *)
(* does not matter (paths, components.schemas) are functions.              *)
(***************************************************************************)
EXTENDS Integers, Sequences, FiniteSets, TLC

VARIABLES
    url_map,          \* app.url_map: the rules, in iter_rules() order
    view_functions,   \* app.view_functions: endpoint -> view function
    convert_casing,   \* extension.convert_casing
    status,           \* outcome of the latest openapi() call: none, ok, error
    paths,            \* the latest document's paths: path -> verb -> object id
    schemas,          \* the latest document's components.schemas
    objects,          \* the Path Item objects of the latest document, by identity
    writes,           \* history: every paths[path][verb] = path_object assignment
    returned,         \* the latest document by value, as it was returned
    previous,         \* the document returned by the call before, same table
    mutations,        \* changes a caller made to the latest document
    result,           \* what a view function returned to make_response
    forwarded,        \* what the wrapped make_response was called with
    phase             \* response pipeline: idle, returned, forwarded, raised

vars == <<url_map, view_functions, convert_casing, status, paths, schemas,
          objects, writes, returned, previous, mutations, result, forwarded,
          phase>>

build_vars == <<url_map, view_functions, convert_casing, status, paths,
                schemas, objects, writes, returned, previous, mutations>>

response_vars == <<result, forwarded, phase>>

\* Bounds of the model.
MaxRoutes == 2
MaxMutations == 1

EmptyMap == [k \in {} |-> k]

(***************************************************************************)
(* Characters and Python's str and dict primitives.                        *)
(***************************************************************************)
Lowercase == <<"a","b","c","d","e","f","g","h","i","j","k","l","m",
               "n","o","p","q","r","s","t","u","v","w","x","y","z">>
Uppercase == <<"A","B","C","D","E","F","G","H","I","J","K","L","M",
               "N","O","P","Q","R","S","T","U","V","W","X","Y","Z">>
Digits == {"0","1","2","3","4","5","6","7","8","9"}

UpperSet == {Uppercase[i] : i \in 1..26}
LowerSet == {Lowercase[i] : i \in 1..26}
ToLower == [c \in UpperSet |-> Lowercase[CHOOSE i \in 1..26 : Uppercase[i] = c]]
ToUpper == [c \in LowerSet |-> Uppercase[CHOOSE i \in 1..26 : Lowercase[i] = c]]

IsUpperChar(c) == c \in UpperSet
IsLowerChar(c) == c \in LowerSet

\* str.lower() and str.upper() of one character
lower(c) == IF IsUpperChar(c) THEN ToLower[c] ELSE c
upper(c) == IF IsLowerChar(c) THEN ToUpper[c] ELSE c

\* str.isupper(): some cased character, and no lowercase one
isupper(s) == /\ \E i \in 1..Len(s) : IsUpperChar(s[i])
              /\ \A i \in 1..Len(s) : ~IsLowerChar(s[i])
isnumeric(s) == Len(s) > 0 /\ \A i \in 1..Len(s) : s[i] \in Digits

\* index of the first c in s at or after position from, 0 when there is none
RECURSIVE FirstIndex(_, _, _)
FirstIndex(s, c, from) ==
    IF from > Len(s) THEN 0
    ELSE IF s[from] = c THEN from ELSE FirstIndex(s, c, from + 1)

\* index of the last c in s, 0 when there is none
RECURSIVE LastIndex(_, _, _)
LastIndex(s, c, upto) ==
    IF upto < 1 THEN 0
    ELSE IF s[upto] = c THEN upto ELSE LastIndex(s, c, upto - 1)

\* str.splitlines(): the lines of s, no empty last line after a final newline
RECURSIVE splitlines(_)
splitlines(s) ==
    IF s = <<>> THEN <<>>
    ELSE LET n == FirstIndex(s, "\n", 1)
         IN IF n = 0 THEN <<s>>
            ELSE <<SubSeq(s, 1, n - 1)>> \o splitlines(SubSeq(s, n + 1, Len(s)))

\* "\n".join(lines)
RECURSIVE join(_)
join(lines) ==
    IF lines = <<>> THEN <<>>
    ELSE IF Len(lines) = 1 THEN lines[1]
    ELSE lines[1] \o <<"\n">> \o join(Tail(lines))

\* dict items: position of key k, 0 when absent
RECURSIVE ItemIndex(_, _, _)
ItemIndex(items, k, from) ==
    IF from > Len(items) THEN 0
    ELSE IF items[from][1] = k THEN from ELSE ItemIndex(items, k, from + 1)

\* d[k] = v on an ordered dict: a known key keeps its place
DictSet(items, k, v) ==
    LET n == ItemIndex(items, k, 1)
    IN IF n = 0 THEN Append(items, <<k, v>>)
       ELSE [items EXCEPT ![n] = <<k, v>>]

Keys(items) == {items[n][1] : n \in 1..Len(items)}

\* dict.update(items) on an unordered dict: the later writer of a key wins
RECURSIVE update(_, _)
update(d, items) ==
    IF items = <<>> THEN d
    ELSE update((items[1][1] :> items[1][2]) @@ d, Tail(items))

\* getattr(func, name, default)
getattr(func, name, default) ==
    IF name \in DOMAIN func THEN func[name] ELSE default

(***************************************************************************)
(* Attribute names and constants.                                          *)
(***************************************************************************)
FLASK_SCHEMA_HIDDEN_ATTRIBUTE == "_flask_schema_hidden"
FLASK_SCHEMA_RESPONSE_ATTRIBUTE == "_flask_schema_response"
FLASK_SCHEMA_REQUEST_ATTRIBUTE == "_flask_schema_request"
FLASK_SCHEMA_QUERYSTRING_ATTRIBUTE == "_flask_schema_querystring"
REF_PREFIX == "#/components/schemas/"

\* func.__doc__: the attribute is absent from the record when it is None
HasDoc(func) == "__doc__" \in DOMAIN func

(***************************************************************************)
(* PATH_RE = "<(?:[^:]*:)?([^>]+)>" and re.sub(PATH_RE, r"{\1}", rule).     *)
(***************************************************************************)
\* The match of PATH_RE that starts at s[i] = "<": [end, name], end = 0 for
\* no match.  The optional group is tried first; [^:]* cannot pass a colon,
\* so it runs to the first colon after i, whatever lies between (a ">"
\* included); without it the name runs from i + 1 to the first ">".
PATH_RE_match(s, i) ==
    LET c == FirstIndex(s, ":", i + 1)
        g1 == IF c = 0 THEN 0 ELSE FirstIndex(s, ">", c + 1)
        g2 == FirstIndex(s, ">", i + 1)
    IN IF c # 0 /\ g1 >= c + 2
       THEN [end |-> g1, name |-> SubSeq(s, c + 1, g1 - 1)]
       ELSE IF g2 >= i + 2
       THEN [end |-> g2, name |-> SubSeq(s, i + 1, g2 - 1)]
       ELSE [end |-> 0, name |-> <<>>]

RECURSIVE re_sub_from(_, _)
re_sub_from(s, i) ==
    IF i > Len(s) THEN <<>>
    ELSE IF s[i] = "<" /\ PATH_RE_match(s, i).end # 0
    THEN LET m == PATH_RE_match(s, i)
         IN <<"{">> \o m.name \o <<"}">> \o re_sub_from(s, m.end + 1)
    ELSE <<s[i]>> \o re_sub_from(s, i + 1)

re_sub(s) == re_sub_from(s, 1)

(***************************************************************************)
(* camelize: the Casing Transformer applied to a schema fragment.          *)
(***************************************************************************)
IsSep(c) == c \in {"_", "-"}

RECURSIVE SepRunEnd(_, _)
SepRunEnd(s, i) ==
    IF i < Len(s) /\ IsSep(s[i + 1]) THEN SepRunEnd(s, i + 1) ELSE i

\* a run of separators after a non-separator, and the character after it,
\* become that character in upper case
RECURSIVE underscore_sub(_, _)
underscore_sub(s, i) ==
    IF i > Len(s) THEN <<>>
    ELSE IF i > 1 /\ ~IsSep(s[i - 1]) /\ IsSep(s[i]) /\ SepRunEnd(s, i) < Len(s)
    THEN LET k == SepRunEnd(s, i)
         IN <<upper(s[k + 1])>> \o underscore_sub(s, k + 2)
    ELSE <<s[i]>> \o underscore_sub(s, i + 1)

\* camelize of one key
camelize_key(s) ==
    IF isupper(s) \/ isnumeric(s) THEN s
    ELSE LET t == IF Len(s) # 0 /\ ~isupper(SubSeq(s, 1, IF Len(s) < 2 THEN Len(s) ELSE 2))
                  THEN <<lower(s[1])>> \o Tail(s) ELSE s
         IN underscore_sub(t, 1)

\* {camelize(k): f(v) for k, v in items}: a key keeps the place of its first
\* occurrence and takes the value of its last
RECURSIVE camelize_items(_, _)
camelize_items(items, inner) ==
    IF items = <<>> THEN <<>>
    ELSE LET rest == camelize_items(SubSeq(items, 1, Len(items) - 1), inner)
             last == items[Len(items)]
             v == IF inner THEN [last[2] EXCEPT !["properties"] =
                                    camelize_items(@, FALSE)]
                  ELSE last[2]
         IN DictSet(rest, camelize_key(last[1]), v)

\* camelize(schema): every mapping key is rewritten, values that are not
\* mappings or lists (a "$ref" string, a title) are not.  The keys the schema
\* generator itself writes (title, type, properties, definitions, $ref) are
\* already in camel case and stay; the keys it takes from the models (the
\* property names, the names of the definitions) are rewritten.
camelize(schema) ==
    [k \in DOMAIN schema |->
        IF k = "properties" THEN camelize_items(schema[k], FALSE)
        ELSE IF k = "definitions" THEN camelize_items(schema[k], TRUE)
        ELSE schema[k]]

(***************************************************************************)
(* model_schema(model_class, ref_prefix): the schema generator.  A model   *)
(* class is [name, doc, fields]; a field is [name, sub] with sub the       *)
(* sequence of its nested model class (empty for a plain field).           *)
(***************************************************************************)
field_schema(f, ref_prefix) ==
    IF f.sub = <<>> THEN ("type" :> "string")
    ELSE ("$ref" :> <<ref_prefix, f.sub[1].name>>)

object_schema(cls, ref_prefix) ==
    [title |-> cls.name, type |-> "object",
     properties |-> [n \in 1..Len(cls.fields) |->
                        <<cls.fields[n].name,
                          field_schema(cls.fields[n], ref_prefix)>>]]

RECURSIVE nested_definitions(_, _)
nested_definitions(fields, ref_prefix) ==
    IF fields = <<>> THEN <<>>
    ELSE LET rest == nested_definitions(
                        SubSeq(fields, 1, Len(fields) - 1), ref_prefix)
             f == fields[Len(fields)]
         IN IF f.sub = <<>> THEN rest
            ELSE DictSet(rest, f.sub[1].name,
                         object_schema(f.sub[1], ref_prefix))

\* the "definitions" key is there only for a model with nested models
model_schema(cls, ref_prefix) ==
    LET defs == nested_definitions(cls.fields, ref_prefix)
    IN IF defs = <<>> THEN object_schema(cls, ref_prefix)
       ELSE object_schema(cls, ref_prefix) @@ ("definitions" :> defs)

(***************************************************************************)
(* _split_definitions and the fragment of one model as the builder uses it *)
(***************************************************************************)
_split_definitions(schema) ==
    LET new_schema == [k \in DOMAIN schema \ {"definitions"} |-> schema[k]]
        definitions == IF "definitions" \in DOMAIN schema
                       THEN schema["definitions"] ELSE <<>>
    IN <<definitions, new_schema>>

\* lines 258-261, 274-277, 296-299: generate, convert the casing, split
fragment_of(cls, casing) ==
    LET schema == model_schema(cls, REF_PREFIX)
    IN _split_definitions(IF casing THEN camelize(schema) ELSE schema)

(***************************************************************************)
(* The routing layer: a rule is [rule, methods, provide_automatic_options, *)
(* endpoint, _converters]; _converters holds one converter per placeholder *)
(* of the rule, keyed by the placeholder's name, in the rule's order.      *)
(***************************************************************************)
\* the placeholder that starts at s[i] = "<": it ends at the next ">", and
\* its name is what follows the last colon inside it
placeholder_at(s, i) ==
    LET g == FirstIndex(s, ">", i + 1)
        c == LastIndex(s, ":", g - 1)
    IN [end |-> g,
        name |-> IF c > i THEN SubSeq(s, c + 1, g - 1) ELSE SubSeq(s, i + 1, g - 1)]

RECURSIVE rule_converters(_, _)
rule_converters(s, i) ==
    IF i > Len(s) THEN <<>>
    ELSE IF s[i] = "<"
    THEN <<placeholder_at(s, i).name>> \o rule_converters(s, placeholder_at(s, i).end + 1)
    ELSE rule_converters(s, i + 1)

Rule(string, methods, provide_automatic_options, endpoint) ==
    [rule |-> string, methods |-> methods,
     provide_automatic_options |-> provide_automatic_options,
     endpoint |-> endpoint, _converters |-> rule_converters(string, 1)]

\* method.lower()
method_lower(method) ==
    CASE method = "GET" -> "get"
      [] method = "POST" -> "post"
      [] method = "PUT" -> "put"
      [] method = "DELETE" -> "delete"
      [] method = "HEAD" -> "head"
      [] method = "OPTIONS" -> "options"

(***************************************************************************)
(* hide_route and the hidden test of the builder.                          *)
(***************************************************************************)
\* setattr(func, FLASK_SCHEMA_HIDDEN_ATTRIBUTE, True)
hide_route(func) ==
    (FLASK_SCHEMA_HIDDEN_ATTRIBUTE :> TRUE) @@ func

\* getattr(func, FLASK_SCHEMA_HIDDEN_ATTRIBUTE, False)
never_hidden(func) == FALSE
is_hidden(func) == getattr(func, FLASK_SCHEMA_HIDDEN_ATTRIBUTE, FALSE)

(***************************************************************************)
(* _build_openapi_schema, one rule at a time.                              *)
(***************************************************************************)
\* a Path Item object that takes over the parameters of the object built
\* for the same rule by the call before
ReusedPathObject(i) ==
    IF <<i, "*">> \in DOMAIN objects
    THEN [parameters |-> objects[<<i, "*">>]["parameters"], responses |-> <<>>]
    ELSE [parameters |-> <<>>, responses |-> <<>>]
\* lines 247-250: the Path Item object of rule i
NewPathObject(i) == [parameters |-> <<>>, responses |-> <<>>]

\* line 252 raises ValueError when the documentation string has no line
doc_raises(func) == HasDoc(func) /\ splitlines(func["__doc__"]) = <<>>

\* lines 251-254
with_doc(path_object, func) ==
    IF HasDoc(func)
    THEN LET lines == splitlines(func["__doc__"])
         IN ("description" :> join(Tail(lines))) @@ ("summary" :> lines[1])
            @@ path_object
    ELSE path_object

\* components["schemas"].update(definitions) that keeps an earlier definition
update_keep(d, items) == d @@ update(EmptyMap, items)
\* lines 262, 278, 300: components["schemas"].update(definitions)
merge_definitions(d, items) == update(d, items)

\* lines 257-270: st is [path_object, schemas]
RECURSIVE add_responses(_, _, _)
add_responses(st, response_models, casing) ==
    IF response_models = <<>> THEN st
    ELSE LET status_code == response_models[1][1]
             model_class == response_models[1][2]
             split == fragment_of(model_class, casing)
             entry == [content |-> ("application/json" :> [schema |-> split[2]]),
                       description |-> model_class.doc]
         IN add_responses(
                [schemas |-> merge_definitions(st.schemas, split[1]),
                 path_object |-> [st.path_object EXCEPT !["responses"] =
                                     DictSet(@, status_code, entry)]],
                Tail(response_models), casing)

\* lines 272-291: request_data is <<model, source>>, or <<>> for None
add_request(st, request_data, casing) ==
    IF request_data = <<>> THEN st
    ELSE LET split == fragment_of(request_data[1], casing)
             encoding == IF request_data[2] = "JSON" THEN "application/json"
                         ELSE "application/x-www-form-urlencoded"
         IN [schemas |-> merge_definitions(st.schemas, split[1]),
             path_object |-> ("requestBody" :>
                                 [content |-> (encoding :> [schema |-> split[2]])])
                             @@ st.path_object]

\* lines 301-308
query_parameters(properties) ==
    [n \in 1..Len(properties) |->
        [name |-> properties[n][1], in |-> "query", schema |-> properties[n][2]]]

\* lines 293-308: querystring_model is <<model>>, or <<>> for None
add_querystring(st, querystring_model, casing) ==
    IF querystring_model = <<>> THEN st
    ELSE LET split == fragment_of(querystring_model[1], casing)
         IN [schemas |-> merge_definitions(st.schemas, split[1]),
             path_object |-> [st.path_object EXCEPT !["parameters"] =
                                 @ \o query_parameters(split[2]["properties"])]]

\* lines 310-316
path_parameters(converters) ==
    [n \in 1..Len(converters) |-> [name |-> converters[n], in |-> "path"]]

\* paths[path] = {}
reset_path(d, path) == (path :> EmptyMap) @@ d
\* line 319: paths.setdefault(path, {})
setdefault(d, path) == IF path \in DOMAIN d THEN d ELSE (path :> EmptyMap) @@ d

\* every OPTIONS is skipped, declared or automatic
skipped_always(rule, method) == method = "HEAD" \/ method = "OPTIONS"
\* lines 322-324: the methods that get no entry
skipped(rule, method) ==
    method = "HEAD" \/ (method = "OPTIONS" /\ rule.provide_automatic_options)

\* a copy of the Path Item object for each verb
path_object_copy(i, method) == <<i, method>>
\* line 325: the object stored under a verb is path_object itself; the
\* identity of the object built for rule i is <<i, "*">>
path_object_ref(i, method) == <<i, "*">>

\* lines 243-325: the loop body for rule i; acc is the builder's local state
process_rule(acc, i) ==
    LET rule == url_map[i]
        func == view_functions[rule.endpoint]
    IN IF acc.raised \/ is_hidden(func) THEN acc
       ELSE IF doc_raises(func) THEN [acc EXCEPT !.raised = TRUE]
       ELSE
        LET st0 == [path_object |-> with_doc(NewPathObject(i), func),
                    schemas |-> acc.schemas]
            st1 == add_responses(st0,
                       getattr(func, FLASK_SCHEMA_RESPONSE_ATTRIBUTE, <<>>),
                       convert_casing)
            st2 == add_request(st1,
                       getattr(func, FLASK_SCHEMA_REQUEST_ATTRIBUTE, <<>>),
                       convert_casing)
            st3 == add_querystring(st2,
                       getattr(func, FLASK_SCHEMA_QUERYSTRING_ATTRIBUTE, <<>>),
                       convert_casing)
            path_object == [st3.path_object EXCEPT !["parameters"] =
                               @ \o path_parameters(rule._converters)]
            path == re_sub(rule.rule)
            kept == {m \in rule.methods : ~skipped(rule, m)}
            old == setdefault(acc.paths, path)
            verbs == {method_lower(m) : m \in kept}
            ref(v) == path_object_ref(i, CHOOSE m \in kept : method_lower(m) = v)
        IN [raised |-> FALSE,
            schemas |-> st3.schemas,
            paths |-> [old EXCEPT ![path] =
                          [v \in DOMAIN old[path] \cup verbs |->
                              IF v \in verbs THEN ref(v) ELSE old[path][v]]],
            objects |-> [id \in {ref(v) : v \in verbs} |-> path_object]
                        @@ acc.objects,
            writes |-> acc.writes \cup
                       {[rule |-> i, path |-> path, verb |-> v, object |-> ref(v)]
                           : v \in verbs}]

RECURSIVE build_from(_, _)
build_from(acc, i) ==
    IF i > Len(url_map) THEN acc
    ELSE build_from(process_rule(acc, i), i + 1)

\* lines 240-242 and the loop
_build_openapi_schema ==
    build_from([raised |-> FALSE, paths |-> EmptyMap, schemas |-> EmptyMap,
                objects |-> EmptyMap, writes |-> {}], 1)

\* the returned document by value: every verb with the Path Item it refers to
document(d) ==
    [openapi |-> "3.0.3",
     info |-> [title |-> "app", version |-> "0.1.0"],
     tags |-> <<>>, servers |-> <<>>,
     components |-> [schemas |-> d.schemas],
     paths |-> [p \in DOMAIN d.paths |->
                  [v \in DOMAIN d.paths[p] |-> d.objects[d.paths[p][v]]]]]

\* no document: the call raised, or there was no call
NoDocument == [openapi |-> "", info |-> [title |-> "", version |-> ""],
               tags |-> <<>>, servers |-> <<>>,
               components |-> [schemas |-> EmptyMap], paths |-> EmptyMap]

(***************************************************************************)
(* The application: the routes init_app leaves behind, and the models,     *)
(* view functions and routes an application registers.                     *)
(***************************************************************************)
Err == <<"E","r","r">>

\* two classes of different modules, both named Err
ErrMsg == [name |-> Err, doc |-> "error message",
           fields |-> << [name |-> <<"m","s","g">>, sub |-> <<>>] >>]
ErrCode == [name |-> Err, doc |-> "error code",
            fields |-> << [name |-> <<"e","_","n","o">>, sub |-> <<>>] >>]

ModelA == [name |-> <<"A">>, doc |-> "a",
           fields |-> << [name |-> <<"x","_","y">>, sub |-> <<>>],
                         [name |-> <<"e">>, sub |-> <<ErrMsg>>] >>]
ModelB == [name |-> <<"B">>, doc |-> "b",
           fields |-> << [name |-> <<"f">>, sub |-> <<ErrMsg>>] >>]
ModelC == [name |-> <<"C">>, doc |-> "c",
           fields |-> << [name |-> <<"c","_","d">>, sub |-> <<>>] >>]
ModelD == [name |-> <<"D">>, doc |-> "d",
           fields |-> << [name |-> <<"g">>, sub |-> <<ErrCode>>] >>]
ModelQ == [name |-> <<"Q">>, doc |-> "q",
           fields |-> << [name |-> <<"p","_","q">>, sub |-> <<>>],
                         [name |-> <<"r">>, sub |-> <<ErrCode>>] >>]

\* view functions: only the attributes that are set are in the record
view_plain == EmptyMap
view_item ==
    ("__doc__" :> <<"s","\n","d","\n","e">>)
    @@ (FLASK_SCHEMA_RESPONSE_ATTRIBUTE :> << <<200, ModelA>>, <<404, ModelB>> >>)
view_post ==
    ("__doc__" :> <<"s">>)
    @@ (FLASK_SCHEMA_RESPONSE_ATTRIBUTE :> << <<404, ModelB>>, <<200, ModelD>> >>)
    @@ (FLASK_SCHEMA_REQUEST_ATTRIBUTE :> <<ModelA, "JSON">>)
    @@ (FLASK_SCHEMA_QUERYSTRING_ATTRIBUTE :> <<ModelQ>>)
view_form ==
    (FLASK_SCHEMA_RESPONSE_ATTRIBUTE :> << <<201, ModelC>> >>)
    @@ (FLASK_SCHEMA_REQUEST_ATTRIBUTE :> <<ModelB, "FORM">>)
view_blank ==
    ("__doc__" :> <<>>)

SampleRoutes == {
    [rule |-> <<"/","<","n",":","a",">">>,
     methods |-> {"GET", "POST", "HEAD", "OPTIONS"}, automatic |-> FALSE,
     view |-> view_item],
    [rule |-> <<"/","<","a",">">>,
     methods |-> {"POST", "OPTIONS"}, automatic |-> TRUE,
     view |-> view_post],
    [rule |-> <<"/","<","a",">","/","<","n",":","b",">">>,
     methods |-> {"GET", "HEAD", "OPTIONS"}, automatic |-> TRUE,
     view |-> view_form],
    [rule |-> <<"/","i">>,
     methods |-> {"HEAD", "OPTIONS"}, automatic |-> TRUE,
     view |-> view_plain],
    [rule |-> <<"/","<","b",">">>,
     methods |-> {"GET", "HEAD", "OPTIONS"}, automatic |-> TRUE,
     view |-> view_blank] }

\* lines 176-183 of init_app with the default paths, after Flask's own static
\* route: /static/<path:filename>, /openapi.json, /redocs, /docs; all four
\* view functions carry the hidden marker (lines 177, 187, 191, 201)
GetRoute == {"GET", "HEAD", "OPTIONS"}
InitialRules == <<
    Rule(<<"/","s","t","a","t","i","c","/","<","p","a","t","h",":",
           "f","i","l","e","n","a","m","e",">">>, GetRoute, TRUE, 1),
    Rule(<<"/","o","p","e","n","a","p","i",".","j","s","o","n">>, GetRoute, TRUE, 2),
    Rule(<<"/","r","e","d","o","c","s">>, GetRoute, TRUE, 3),
    Rule(<<"/","d","o","c","s">>, GetRoute, TRUE, 4) >>
InitialViews == <<
    hide_route(("__doc__" :> <<"s","t","a","t","i","c">>)),
    hide_route(EmptyMap), hide_route(EmptyMap), hide_route(EmptyMap) >>

(***************************************************************************)
(* convert_model_result.  A Python value is [kind, cls, atom, items]:      *)
(* items are the <<name, value>> pairs of a dataclass instance, a model    *)
(* instance or a dict, and the <<index, value>> pairs of a list or tuple.  *)
(***************************************************************************)
Scalar(kind, atom) == [kind |-> kind, cls |-> "", atom |-> atom, items |-> <<>>]
None == Scalar("none", "None")
Container(kind, cls, items) ==
    [kind |-> kind, cls |-> cls, atom |-> "", items |-> items]
PyTuple(elems) ==
    Container("tuple", "", [n \in 1..Len(elems) |-> <<"", elems[n]>>])
PyList(elems) ==
    Container("list", "", [n \in 1..Len(elems) |-> <<"", elems[n]>>])

\* isinstance(value, tuple), is_dataclass(value), isinstance(value, BaseModel)
is_tuple(value) == value.kind = "tuple"
is_dataclass(value) == value.kind \in {"dataclass", "dataclass_type"}
is_BaseModel(value) == value.kind = "model"

\* dataclasses._asdict_inner: dataclass instances become dicts at every
\* depth of lists, tuples and dicts; anything else is copied
RECURSIVE _asdict_inner(_)
_asdict_inner(obj) ==
    IF obj.kind = "dataclass"
    THEN Container("dict", "", [n \in 1..Len(obj.items) |->
             <<obj.items[n][1], _asdict_inner(obj.items[n][2])>>])
    ELSE IF obj.kind \in {"list", "tuple", "dict"}
    THEN [obj EXCEPT !.items = [n \in 1..Len(obj.items) |->
             <<obj.items[n][1], _asdict_inner(obj.items[n][2])>>]]
    ELSE obj

\* the field mapping of the instance, one level only
asdict_shallow(obj) == Container("dict", "", obj.items)
\* dataclasses.asdict, called on an instance
asdict(obj) == _asdict_inner(obj)

\* BaseModel.dict(): the model and the models nested in it become dicts
RECURSIVE model_dict(_)
model_dict(obj) ==
    IF obj.kind = "model"
    THEN Container("dict", "", [n \in 1..Len(obj.items) |->
             <<obj.items[n][1], model_dict(obj.items[n][2])>>])
    ELSE IF obj.kind \in {"list", "tuple", "dict"}
    THEN [obj EXCEPT !.items = [n \in 1..Len(obj.items) |->
             <<obj.items[n][1], model_dict(obj.items[n][2])>>]]
    ELSE obj

\* lines 220-226: result + (None,) * (3 - len(result)), unpacked into three
unpack(res) ==
    IF is_tuple(res)
    THEN [n \in 1..(IF Len(res.items) > 3 THEN Len(res.items) ELSE 3) |->
             IF n <= Len(res.items) THEN res.items[n][2] ELSE None]
    ELSE <<res, None, None>>

\* line 223 raises ValueError for a tuple of more than three elements, line
\* 229 raises TypeError for a dataclass that is a class, not an instance
decorator_raises(res) ==
    \/ Len(unpack(res)) > 3
    \/ unpack(res)[1].kind = "dataclass_type"

\* lines 219-234: what func is called with
decorator(res) ==
    LET value == unpack(res)[1]
        dict_or_value == IF is_dataclass(value) THEN asdict(value)
                         ELSE IF is_BaseModel(value) THEN model_dict(value)
                         ELSE value
    IN PyTuple(<<dict_or_value, unpack(res)[2], unpack(res)[3]>>)

\* the values a view function returns
Int1 == Scalar("int", "1")
StrX == Scalar("str", "x")
Point == Container("dataclass", "Point", << <<"x", Int1>>, <<"y", StrX>> >>)
User == Container("model", "User", << <<"id", Int1>> >>)
Line == Container("dataclass", "Line", << <<"a", Point>>, <<"n", Int1>> >>)
Path == Container("dataclass", "Path", << <<"ps", PyList(<<Point, Int1>>)>> >>)
Owned == Container("dataclass", "Owned", << <<"u", User>>, <<"n", None>> >>)
Team == Container("model", "Team", << <<"lead", User>>, <<"n", Int1>> >>)
Values == {
    Int1, StrX, None, Point, User, Line, Path, Owned, Team,
    PyList(<<Int1, StrX>>), PyList(<<Point>>),
    Container("dict", "", << <<"k", Point>>, <<"n", Int1>> >>),
    Container("dataclass_type", "Point", <<>>) }
Status == Scalar("int", "200")
Headers == Container("dict", "", << <<"h", StrX>> >>)
Results ==
    Values \cup {PyTuple(<<>>)}
    \cup {PyTuple(<<v>>) : v \in Values}
    \cup {PyTuple(<<v, Status>>) : v \in Values}
    \cup {PyTuple(<<v, Status, Headers>>) : v \in Values}
    \cup {PyTuple(<<v, Status, Headers, None>>) : v \in Values}

(***************************************************************************)
(* The state machine.                                                      *)
(***************************************************************************)
Init ==
    /\ url_map = InitialRules
    /\ view_functions = InitialViews
    /\ convert_casing \in BOOLEAN
    /\ status = "none"
    /\ paths = EmptyMap
    /\ schemas = EmptyMap
    /\ objects = EmptyMap
    /\ writes = {}
    /\ returned = NoDocument
    /\ previous = NoDocument
    /\ mutations = 0
    /\ result = None
    /\ forwarded = None
    /\ phase = "idle"

\* app.route(rule, methods=...)(view): rules are added while the application
\* is set up, before it serves its first request
AddUrlRule ==
    \E r \in SampleRoutes :
        /\ status = "none"
        /\ Len(url_map) < Len(InitialRules) + MaxRoutes
        /\ url_map' = Append(url_map,
               Rule(r.rule, r.methods, r.automatic, Len(view_functions) + 1))
        /\ view_functions' = Append(view_functions, r.view)
        /\ UNCHANGED <<convert_casing, status, paths, schemas, objects, writes,
                       returned, previous, mutations, response_vars>>

\* hide_route(func) on a view function of the application
HideRoute ==
    \E e \in (Len(InitialViews) + 1)..Len(view_functions) :
        /\ status = "none"
        /\ view_functions' = [view_functions EXCEPT ![e] = hide_route(@)]
        /\ UNCHANGED <<url_map, convert_casing, status, paths, schemas, objects,
                       writes, returned, previous, mutations, response_vars>>

\* GET /openapi.json: FlaskSchema.openapi, lines 188-189
Openapi ==
    LET built == _build_openapi_schema
        d == IF built.raised
             THEN [raised |-> TRUE, paths |-> EmptyMap, schemas |-> EmptyMap,
                   objects |-> EmptyMap, writes |-> {}]
             ELSE built
    IN /\ status' = IF d.raised THEN "error" ELSE "ok"
       /\ paths' = d.paths
       /\ schemas' = d.schemas
       /\ objects' = d.objects
       /\ writes' = d.writes
       /\ returned' = IF d.raised THEN NoDocument ELSE document(d)
       /\ previous' = returned
       /\ mutations' = 0
       /\ UNCHANGED <<url_map, view_functions, convert_casing, response_vars>>

\* a caller appends a parameter to the Path Item it reads under one verb of
\* the document it was given
Marker == [name |-> <<"m">>, in |-> "header"]
Mutate ==
    \E p \in DOMAIN paths : \E v \in DOMAIN paths[p] :
        /\ status = "ok"
        /\ mutations < MaxMutations
        /\ objects' = [objects EXCEPT ![paths[p][v]]["parameters"] =
                          Append(@, Marker)]
        /\ mutations' = mutations + 1
        /\ UNCHANGED <<url_map, view_functions, convert_casing, status, paths,
                       schemas, writes, returned, previous, response_vars>>

Next == AddUrlRule \/ HideRoute \/ Openapi \/ Mutate

Spec == Init /\ [][Next]_vars

\* a view function returns
ViewReturns ==
    \E r \in Results :
        /\ phase # "returned"
        /\ result' = r
        /\ forwarded' = None
        /\ phase' = "returned"
        /\ UNCHANGED build_vars

\* app.make_response(result), wrapped by convert_model_result (line 160)
MakeResponse ==
    /\ phase = "returned"
    /\ IF decorator_raises(result)
       THEN phase' = "raised" /\ forwarded' = None
       ELSE phase' = "forwarded" /\ forwarded' = decorator(result)
    /\ UNCHANGED <<result, build_vars>>

NextResponse == ViewReturns \/ MakeResponse

SpecResponse == Init /\ [][NextResponse]_vars

(***************************************************************************)
(* Properties.                                                             *)
(***************************************************************************)
Max(S) == CHOOSE x \in S : \A y \in S : y <= x

ViewOf(i) == view_functions[url_map[i].endpoint]

\* the path every rule rewrites to
PathOf == [i \in 1..Len(url_map) |-> re_sub(url_map[i].rule)]

\* the rules whose view function carries the hidden marker, and the others
Hidden == {i \in 1..Len(url_map) :
              FLASK_SCHEMA_HIDDEN_ATTRIBUTE \in DOMAIN ViewOf(i)}
Visible == (1..Len(url_map)) \ Hidden
UserRules == (Len(InitialRules) + 1)..Len(url_map)

WritesOf(i) == {w \in writes : w.rule = i}
VerbsOf(i) == {w.verb : w \in WritesOf(i)}

\* the models of a view function in the order the builder reads them:
\* response models, request model, querystring model
ModelsOf(func) ==
    LET responses == getattr(func, FLASK_SCHEMA_RESPONSE_ATTRIBUTE, <<>>)
        request == getattr(func, FLASK_SCHEMA_REQUEST_ATTRIBUTE, <<>>)
        query == getattr(func, FLASK_SCHEMA_QUERYSTRING_ATTRIBUTE, <<>>)
    IN [n \in 1..Len(responses) |-> responses[n][2]]
       \o (IF request = <<>> THEN <<>> ELSE <<request[1]>>)
       \o query

\* the definitions of a sequence of models, in order
RECURSIVE DefinitionsOfModels(_)
DefinitionsOfModels(models) ==
    IF models = <<>> THEN <<>>
    ELSE fragment_of(models[1], convert_casing)[1]
         \o DefinitionsOfModels(Tail(models))

\* the definitions of the visible rules from rule i on, in processing order
RECURSIVE DefinitionsFrom(_)
DefinitionsFrom(i) ==
    IF i > Len(url_map) THEN <<>>
    ELSE (IF i \in Visible THEN DefinitionsOfModels(ModelsOf(ViewOf(i)))
          ELSE <<>>) \o DefinitionsFrom(i + 1)

AllDefinitions == DefinitionsFrom(1)

\* the verbs a rule is to emit
Emitted(i) ==
    {method_lower(m) : m \in url_map[i].methods \
        ({"HEAD"} \cup (IF url_map[i].provide_automatic_options
                        THEN {"OPTIONS"} ELSE {}))}

\* C1: a rule whose view function carries the hidden marker contributes
\* nothing to the document: no verb entry, no path key and no component
\* definition come from it, whatever annotations it carries; a view function
\* that was never marked is not hidden, and its path is in the document.
C1_HiddenContributesNothing ==
    status = "ok" =>
        LET path == PathOf
        IN /\ \A w \in writes : w.rule \in Visible
           /\ \A p \in DOMAIN paths :
                 /\ \E i \in Visible : path[i] = p
                 /\ \A v \in DOMAIN paths[p] : paths[p][v][1] \in Visible
           /\ DOMAIN schemas \subseteq
                 UNION {Keys(DefinitionsOfModels(ModelsOf(ViewOf(i)))) :
                           i \in Visible}
           /\ \A i \in Visible : path[i] \in DOMAIN paths

C1_Witness ==
    /\ status = "ok"
    /\ \E i \in Hidden \cap UserRules :
          /\ DefinitionsOfModels(ModelsOf(ViewOf(i))) # <<>>
          /\ Emitted(i) # {}
    /\ \E i \in Visible : VerbsOf(i) # {}

\* C2: all verb entries a rule writes are one and the same Path Item object,
\* so that in every state, also after a caller changed the parameters through
\* one verb, the entries of one rule under a path show the same Path Item.
C2_SharedPathItem ==
    status = "ok" =>
        /\ \A w1, w2 \in writes : w1.rule = w2.rule => w1.object = w2.object
        /\ \A p \in DOMAIN paths : \A v1, v2 \in DOMAIN paths[p] :
              paths[p][v1][1] = paths[p][v2][1] =>
                  objects[paths[p][v1]] = objects[paths[p][v2]]

C2_Witness ==
    /\ status = "ok"
    /\ mutations > 0
    /\ \E p \in DOMAIN paths : \E v1, v2 \in DOMAIN paths[p] :
          /\ v1 # v2
          /\ paths[p][v1][1] = paths[p][v2][1]
          /\ LET ps == objects[paths[p][v1]]["parameters"]
             IN ps # <<>> /\ ps[Len(ps)] = Marker

\* C3: the verbs a visible rule writes are the lowercase forms of its methods
\* without HEAD, and without OPTIONS when the rule provides automatic
\* options; OPTIONS of a rule that does not is written as "options".
C3_VerbSet ==
    status = "ok" =>
        \A i \in Visible :
            /\ VerbsOf(i) = Emitted(i)
            /\ \A w \in WritesOf(i) : w.path = re_sub(url_map[i].rule)

C3_Witness ==
    /\ status = "ok"
    /\ \E i \in Visible :
          /\ url_map[i].methods = {"GET", "HEAD", "OPTIONS"}
          /\ url_map[i].provide_automatic_options
          /\ VerbsOf(i) = {"get"}
    /\ \E i \in Visible :
          /\ ~url_map[i].provide_automatic_options
          /\ "options" \in VerbsOf(i)

\* the names a property mapping refers to under the fixed prefix
RefNames(properties) ==
    {properties[n][2]["$ref"][2] :
        n \in {m \in 1..Len(properties) : "$ref" \in DOMAIN properties[m][2]}}

Resolves(schema) ==
    /\ "definitions" \notin DOMAIN schema
    /\ RefNames(schema["properties"]) \subseteq DOMAIN schemas

\* the fragments a Path Item holds resolve against components.schemas
PathItemResolves(o) ==
    /\ \A n \in 1..Len(o["responses"]) :
          Resolves(o["responses"][n][2].content["application/json"].schema)
    /\ "requestBody" \in DOMAIN o =>
          \A e \in DOMAIN o["requestBody"].content :
              Resolves(o["requestBody"].content[e].schema)
    /\ \A n \in 1..Len(o["parameters"]) :
          LET param == o["parameters"][n]
          IN (param.in = "query" /\ "$ref" \in DOMAIN param.schema) =>
                 param.schema["$ref"][2] \in DOMAIN schemas

\* C4: with case conversion off or on, no fragment placed in the document
\* has a definitions key, and every name a fragment refers to by
\* "#/components/schemas/<name>" is a key of components.schemas.
C4_ReferencesResolve ==
    status = "ok" => \A id \in DOMAIN objects : PathItemResolves(objects[id])

\* the part of C4 that the code keeps: references resolve with case
\* conversion off, and no fragment has a definitions key in either mode
C4_ResolveWithoutCasing ==
    (status = "ok" /\ ~convert_casing) =>
        \A id \in DOMAIN objects : PathItemResolves(objects[id])

\* the rule with every placeholder <name> or <converter:name> replaced by
\* {name}, placeholder by placeholder
RECURSIVE Template(_, _)
Template(s, i) ==
    IF i > Len(s) THEN <<>>
    ELSE IF s[i] = "<"
    THEN <<"{">> \o placeholder_at(s, i).name \o <<"}">>
         \o Template(s, placeholder_at(s, i).end + 1)
    ELSE <<s[i]>> \o Template(s, i + 1)

\* the path parameters of a Path Item: one per placeholder, in order, without
\* a schema, after every query parameter
PathParametersAsClaimed(o, i) ==
    LET ps == o["parameters"]
        path_ps == {n \in 1..Len(ps) : ps[n].in = "path"}
        query_ps == {n \in 1..Len(ps) : ps[n].in = "query"}
        names == url_map[i]._converters
    IN /\ Cardinality(path_ps) = Len(names)
       /\ \A k \in 1..Len(names) :
             Cardinality({n \in path_ps : ps[n].name = names[k]}) = 1
       /\ \A n \in path_ps : DOMAIN ps[n] = {"name", "in"}
       /\ \A n \in path_ps : \A m \in query_ps : m < n

\* C5: the path key of a visible rule is its pattern with each placeholder
\* replaced by {name}, and its Path Item has exactly one schema-less path
\* parameter per placeholder, after every query parameter.
C5_PathTemplate ==
    status = "ok" =>
        \A i \in Visible :
            /\ Template(url_map[i].rule, 1) \in DOMAIN paths
            /\ \A w \in WritesOf(i) :
                  /\ w.path = Template(url_map[i].rule, 1)
                  /\ PathParametersAsClaimed(objects[w.object], i)

\* the part of C5 that the code keeps: the path parameters
C5_PathParameters ==
    (status = "ok" /\ mutations = 0) =>
        \A i \in Visible : \A w \in WritesOf(i) :
            PathParametersAsClaimed(objects[w.object], i)

\* C7: the build completes for every visible rule; a view function with a
\* documentation string gets its first line as summary and the other lines,
\* joined by newline, as description; one without gets neither.
C7_SummaryAndDescription ==
    status # "none" =>
        /\ status = "ok"
        /\ \A i \in Visible : \A w \in WritesOf(i) :
              LET o == objects[w.object]
                  func == ViewOf(i)
              IN IF HasDoc(func)
                 THEN /\ {"summary", "description"} \subseteq DOMAIN o
                      /\ o["summary"] = splitlines(func["__doc__"])[1]
                      /\ o["description"] = join(Tail(splitlines(func["__doc__"])))
                 ELSE {"summary", "description"} \cap DOMAIN o = {}

\* C8: components.schemas holds, for every name some visible rule's fragment
\* defines, the definition of the fragment processed last; the merge never
\* raises (a build fails only on a documentation string without a line).
C8_LastDefinitionWins ==
    /\ status = "ok" =>
          LET defs == AllDefinitions
          IN /\ DOMAIN schemas = Keys(defs)
             /\ \A name \in DOMAIN schemas :
                   schemas[name] =
                       defs[Max({n \in 1..Len(defs) : defs[n][1] = name})][2]
    /\ status = "error" =>
          \E i \in Visible : HasDoc(ViewOf(i)) /\ ViewOf(i)["__doc__"] = <<>>

C8_Witness ==
    /\ status = "ok"
    /\ LET defs == AllDefinitions
       IN \E n1, n2 \in 1..Len(defs) :
             /\ n1 < n2
             /\ defs[n1][1] = defs[n2][1]
             /\ defs[n1][2] # defs[n2][2]
             /\ \A n \in (n2 + 1)..Len(defs) : defs[n][1] # defs[n2][1]
             /\ schemas[defs[n2][1]] = defs[n2][2]

\* C9: a call over the route table and settings of the call before returns a
\* document equal to the one that call returned, whatever a caller did to
\* that document in between.
C9_Idempotent ==
    (status = "ok" /\ previous # NoDocument) => returned = previous

C9_Witness ==
    /\ status = "ok"
    /\ previous # NoDocument
    /\ returned = previous
    /\ DOMAIN schemas # {}
    /\ \E p \in DOMAIN returned.paths : \E v \in DOMAIN returned.paths[p] :
          returned.paths[p][v]["parameters"] # <<>>

\* C10: the rules that rewrite to one path share its verb mapping: its verbs
\* are the union of what they emit, each verb refers to the Path Item of the
\* last rule that emits it, and a visible rule that emits nothing still
\* leaves its path key.
C10_SharedVerbMapping ==
    status = "ok" =>
        LET path == PathOf
            RulesAt(p) == {i \in Visible : path[i] = p}
        IN /\ DOMAIN paths = {path[i] : i \in Visible}
           /\ \A p \in DOMAIN paths :
                 /\ DOMAIN paths[p] = UNION {Emitted(i) : i \in RulesAt(p)}
                 /\ \A v \in DOMAIN paths[p] :
                       paths[p][v][1] =
                           Max({i \in RulesAt(p) : v \in Emitted(i)})

C10_Witness ==
    /\ status = "ok"
    /\ \E p \in DOMAIN paths : \E i, j \in {k \in Visible : PathOf[k] = p} :
          /\ i < j
          /\ Emitted(i) \cap Emitted(j) # {}
          /\ Emitted(i) \ Emitted(j) # {}
          /\ \A v \in Emitted(i) \ Emitted(j) : paths[p][v][1] = i
          /\ \A v \in Emitted(j) : paths[p][v][1] = j

\* the value the wrapper coerces: the result, or the first element of a
\* result that is a tuple
ReturnedValue ==
    IF result.kind = "tuple"
    THEN (IF result.items = <<>> THEN None ELSE result.items[1][2])
    ELSE result
Coerced == forwarded.items[1][2]

\* a dataclass instance occurs in v, at any depth of lists, tuples and dicts
RECURSIVE HoldsDataclass(_)
HoldsDataclass(v) ==
    \/ v.kind = "dataclass"
    \/ /\ v.kind \in {"list", "tuple", "dict"}
       /\ \E n \in 1..Len(v.items) : HoldsDataclass(v.items[n][2])

FieldNames(v) == [n \in 1..Len(v.items) |-> v.items[n][1]]

\* C6 as amended: a dataclass instance becomes the mapping of its declared
\* fields in which every dataclass instance, at any depth of fields, lists,
\* tuples and dicts, is itself such a mapping, and any other field value is
\* kept; a model instance becomes its dict(); any other value is unchanged.
C6_CoercionIsDeep ==
    phase = "forwarded" =>
        /\ ReturnedValue.kind = "dataclass" =>
              /\ Coerced.kind = "dict"
              /\ FieldNames(Coerced) = FieldNames(ReturnedValue)
              /\ ~HoldsDataclass(Coerced)
              /\ \A n \in 1..Len(ReturnedValue.items) :
                    LET before == ReturnedValue.items[n][2]
                        after == Coerced.items[n][2]
                    IN /\ ~HoldsDataclass(before) => after = before
                       /\ before.kind = "dataclass" =>
                             /\ after.kind = "dict"
                             /\ FieldNames(after) = FieldNames(before)
                       /\ before.kind \in {"list", "tuple"} =>
                             /\ after.kind = before.kind
                             /\ Len(after.items) = Len(before.items)
        /\ ReturnedValue.kind = "model" => Coerced = model_dict(ReturnedValue)
        /\ ReturnedValue.kind \in {"int", "str", "none", "list", "dict"} =>
              Coerced = ReturnedValue

C6_Witness ==
    /\ phase = "forwarded"
    /\ ReturnedValue.kind = "dataclass"
    /\ \E n \in 1..Len(ReturnedValue.items) :
          /\ ReturnedValue.items[n][2].kind = "dataclass"
          /\ Coerced.items[n][2].kind = "dict"

\* C6: a dataclass instance becomes the mapping of its declared fields to
\* the field values as they are, one level only; a model instance becomes
\* its dict(); any other value is unchanged.
C6_CoercionIsShallow ==
    phase = "forwarded" =>
        /\ ReturnedValue.kind = "dataclass" =>
              Coerced = Container("dict", "", ReturnedValue.items)
        /\ ReturnedValue.kind = "model" => Coerced = model_dict(ReturnedValue)
        /\ ReturnedValue.kind \in {"int", "str", "none", "list", "dict"} =>
              Coerced = ReturnedValue

====
